---- MODULE Spec2Model ----
(***************************************************************************)
(* Model of the NeRS driver (src/main.py) and of its data loaders          *)
(* (src/ners/data.py).                                                     *)
(*                                                                         *)
(*   Spec        one invocation of main(args)                              *)
(*   SpecRace    two invocations of main(args) on the same output_dir      *)
(*   SpecBox     the square-box arithmetic of the two loaders              *)
(*   SpecLoader  load_car_data on a bounded data directory                 *)
(***************************************************************************)
EXTENDS Integers, Sequences, FiniteSets, TLC

\* ------------------------------------------------------------------ bounds
MaxGpus == 3
MaxScenes == 2
MaxAnn == 3
MaxCoord == 6

\* ----------------------------------------------------------------- helpers
Max2(a, b) == IF a >= b THEN a ELSE b

\* numpy's astype(int) on a float: truncation toward zero.  The value is a / b.
TruncDiv(a, b) == IF a >= 0 THEN a \div b ELSE -((-a) \div b)

\* Python's list(range(a, b)).
Range(a, b) == [k \in 1..(IF b > a THEN b - a ELSE 0) |-> a + k - 1]

Elems(s) == {s[k] : k \in DOMAIN s}

\* All sequences over S of length 0..n.
SeqsUpTo(S, n) == UNION {[1..k -> S] : k \in 0..n}

\* All integer boxes (x0, y0, x1, y1) with 0 <= x0 < x1 <= n, 0 <= y0 < y1 <= n:
\* what get_bbox returns for a mask with at least one foreground pixel, and a
\* well-formed annotated box.
Boxes(n) == {b \in (0..n) \X (0..n) \X (0..n) \X (0..n) : b[1] < b[3] /\ b[2] < b[4]}

\* -------------------------------------------------------- square-box maths
\* load_data_from_dir: center = (bbox[:2] + bbox[2:]) / 2.0,
\* s = max(bbox[2:] - bbox[:2]) / 2.0 * (1 + pad_size) with pad_size = 0.1,
\* square_bbox = concatenate([center - s, center + s]).astype(int).
\* Values are kept as exact twentieths (center = 10*(a+b)/20, s = 11*m/20); the
\* truncation is applied to each of the four corners separately, as in the code.
\* (The code computes in IEEE doubles; for coordinates up to 41 the truncated
\* doubles equal the truncated exact values, in both loaders.)
DirSquareBbox(bbox) ==
    LET cx == 10 * (bbox[1] + bbox[3])
        cy == 10 * (bbox[2] + bbox[4])
        s  == 11 * Max2(bbox[3] - bbox[1], bbox[4] - bbox[2])
    IN  << TruncDiv(cx - s, 20), TruncDiv(cy - s, 20),
           TruncDiv(cx + s, 20), TruncDiv(cy + s, 20) >>

\* load_car_data: center = ((bbox[:2] + bbox[2:]) / 2.0).astype(int),
\* s = (max(bbox[2:] - bbox[:2]) / 2.0 * (1 + pad_size)).astype(int),
\* square_bbox = concatenate([center - s, center + s]).
CarSquareBbox(bbox) ==
    LET cx == TruncDiv(bbox[1] + bbox[3], 2)
        cy == TruncDiv(bbox[2] + bbox[4], 2)
        s  == TruncDiv(11 * Max2(bbox[3] - bbox[1], bbox[4] - bbox[2]), 20)
    IN  << cx - s, cy - s, cx + s, cy + s >>

\* ------------------------------------------------------------------ loaders
\* One annotation record of annotations.json; filename identifies the view.
Annotation(k, b) ==
    [filename |-> k, bbox |-> b,
     camera_optimized |-> <<"camera_optimized", k>>,
     camera_initial |-> <<"camera_initial", k>>]

\* The indices the per-view loop of load_car_data visits (0-based).
ViewIndicesAll(n, reserve_first_image) == Range(0, n)
ViewIndices(n, reserve_first_image) ==
    Range(IF reserve_first_image THEN 1 ELSE 0, n)

\* The loop body of load_car_data run over one scene's annotations: every field
\* gets one append per visited annotation.  Image-valued fields are represented
\* by the filename they were computed from.
CarDataDict(scene, use_optimized_cameras, reserve_first_image) ==
    LET anns == scene.annotations
        idx  == ViewIndices(Len(anns), reserve_first_image)
        ann(k) == anns[idx[k] + 1]
        sq(k)  == CarSquareBbox(ann(k).bbox)
    IN  [id            |-> scene.id,
         bbox          |-> [k \in DOMAIN idx |-> sq(k)],
         crop_scales   |-> [k \in DOMAIN idx |-> <<ann(k).filename, sq(k)>>],
         image_centers |-> [k \in DOMAIN idx |-> <<ann(k).filename, sq(k)>>],
         images        |-> [k \in DOMAIN idx |-> <<ann(k).filename, sq(k)>>],
         images_og     |-> [k \in DOMAIN idx |-> ann(k).filename],
         initial_poses |-> [k \in DOMAIN idx |->
                              IF use_optimized_cameras
                              THEN ann(k).camera_optimized
                              ELSE ann(k).camera_initial],
         masks         |-> [k \in DOMAIN idx |-> <<ann(k).filename, sq(k)>>],
         masks_dt      |-> [k \in DOMAIN idx |-> <<ann(k).filename, sq(k)>>]]

\* load_car_data.  dirs[num] raises IndexError when num_scenes exceeds the number
\* of entries of data_dir; np.stack raises ValueError on an empty list, i.e. for
\* a scene in which no annotation was visited.
LoadCarData(dirs, num_scenes, use_optimized_cameras, reserve_first_image) ==
    IF num_scenes > Len(dirs)
    THEN [raised |-> TRUE, data |-> <<>>]
    ELSE LET dicts == [k \in 1..num_scenes |->
                         CarDataDict(dirs[k], use_optimized_cameras,
                                     reserve_first_image)]
         IN  IF \E k \in 1..num_scenes : Len(dicts[k].bbox) = 0
             THEN [raised |-> TRUE, data |-> <<>>]
             ELSE [raised |-> FALSE, data |-> dicts]

\* load_data_from_dir on the tight mask boxes of the images of instance_dir
\* (sorted by filename); "extents" is present only with a metadata.json.
\* np.stack raises ValueError when the directory holds no image.
LoadDataFromDir(mask_boxes, has_metadata) ==
    IF Len(mask_boxes) = 0
    THEN [raised |-> TRUE, data |-> <<>>]
    ELSE [raised |-> FALSE,
          data |-> << [bbox      |-> [k \in DOMAIN mask_boxes |->
                                        DirSquareBbox(mask_boxes[k])],
                       images_og |-> [k \in DOMAIN mask_boxes |-> k],
                       has_extents |-> has_metadata] >>]

\* ------------------------------------------------------------------- state
Runs == {1, 2}

VARIABLES
    active,               \* the invocations of main(args) that take place
    args,                 \* args[r]: the parsed command line of run r
    pc,                   \* pc[r]: the statement of main() run r is about to execute
    gpu_ids,              \* gpu_ids[r]: device list of the main optimization
    gpu_id_illumination,  \* gpu_id_illumination[r]: {} is None, {d} is device d
    data_list,            \* data_list[r]: what the loader returned
    ners,                 \* ners[r]: num_scenes and scene_ids of the Ners object
    i,                    \* i[r]: index of the export loop
    log,                  \* log[r]: the calls with side effects run r has completed
    weights,              \* <output_dir>/weights.pth: the writers of the file, in order
    output_dir,           \* whether output_dir exists
    num_gpus,             \* torch.cuda.device_count()
    data_dir,             \* contents of args.data_dir
    overlapped,           \* history: an invocation began while another was in progress
    box_mode, box_in, box_out,   \* SpecBox: loader, input box, stored bbox
    ld_in, ld_out                \* SpecLoader: arguments and outcome of load_car_data

orchVars == <<active, args, pc, gpu_ids, gpu_id_illumination, data_list, ners, i,
              log, weights, output_dir, num_gpus, data_dir, overlapped>>
boxVars == <<box_mode, box_in, box_out>>
loaderVars == <<ld_in, ld_out>>
vars == <<orchVars, boxVars, loaderVars>>

SceneIds == {7, 9}

Args == [force : BOOLEAN, predict_illumination : BOOLEAN, export_mesh : BOOLEAN,
         mvmc : BOOLEAN, num_scenes : 0..MaxScenes]

\* Scene directories of an MVMC data_dir as main() meets them.
OrchScenes ==
    {[id |-> d, annotations |-> [k \in 1..n |-> Annotation(k - 1, <<0, 0, 3, 2>>)]] :
        d \in SceneIds, n \in 1..2}

Event(op, arg) == [op |-> op, arg |-> arg]

\* f"{scene_id}_mesh.obj" (the basename; output_dir is shared)
MeshName(scene_id) == ToString(scene_id) \o "_mesh.obj"

InProgress(r) == pc[r] \notin {"idle", "done", "skipped", "failed"}

\* osp.exists(weights_path)
Exists(w) == Len(w) > 0

\* the condition of the early return of main()
SkipRunForceInverted(a, w) == a.force /\ Exists(w)
SkipRun(a, w) == ~a.force /\ Exists(w)

\* the device split of main()
PartitionDevicesAll(n, predict_illumination) ==
    [gpu_ids |-> Range(0, n),
     gpu_id_illumination |-> IF predict_illumination THEN {n - 1} ELSE {}]
PartitionDevices(n, predict_illumination) ==
    IF predict_illumination
    THEN [gpu_ids |-> Range(0, n - 1), gpu_id_illumination |-> {n - 1}]
    ELSE [gpu_ids |-> Range(0, n), gpu_id_illumination |-> {}]

\* Ners.num_scenes / Ners.scene_ids: one entry per loaded scene carrying the scene's
\* id; a directory-mode scene has no "id" key, its id is left open.
NersSceneIdChoices(a, data) ==
    IF a.mvmc THEN {[k \in DOMAIN data |-> data[k].id]}
    ELSE {<<d>> : d \in SceneIds}

\* -------------------------------------------------------------------- init
BoxIdle == box_mode = "off" /\ box_in = <<>> /\ box_out = <<>>
LoaderIdle == ld_in = [dirs |-> <<>>, num_scenes |-> 0, use_optimized_cameras |-> TRUE,
                       reserve_first_image |-> TRUE]
              /\ ld_out = [state |-> "off", data |-> <<>>]
OrchIdle ==
    /\ active = {}
    /\ args = [r \in Runs |-> [force |-> FALSE, predict_illumination |-> FALSE,
                               export_mesh |-> FALSE, mvmc |-> FALSE, num_scenes |-> 0]]
    /\ weights = <<>> /\ output_dir = FALSE /\ num_gpus = 0
    /\ data_dir = [scenes |-> <<>>, mask_boxes |-> <<>>, has_metadata |-> FALSE]

RunsIdle ==
    /\ pc = [r \in Runs |-> "idle"]
    /\ gpu_ids = [r \in Runs |-> <<>>]
    /\ gpu_id_illumination = [r \in Runs |-> {}]
    /\ data_list = [r \in Runs |-> <<>>]
    /\ ners = [r \in Runs |-> [num_scenes |-> 0, scene_ids |-> <<>>]]
    /\ i = [r \in Runs |-> 0]
    /\ log = [r \in Runs |-> <<>>]
    /\ overlapped = FALSE

\* The data directory an argument record is run against: an MVMC run reads scene
\* directories, a directory-mode run reads images/masks and metadata.json.
DataDirs(a, maxScenes) ==
    IF a.mvmc
    THEN {[scenes |-> s, mask_boxes |-> <<>>, has_metadata |-> FALSE] :
            s \in SeqsUpTo(OrchScenes, maxScenes)}
    ELSE {[scenes |-> <<>>, mask_boxes |-> m, has_metadata |-> h] :
            m \in {<<>>, << <<0, 0, 3, 2>> >>}, h \in BOOLEAN}

\* weights.pth is either absent or left by an earlier invocation (writer 0).
DiskInit ==
    /\ weights \in {<<>>, <<0>>}
    /\ output_dir \in BOOLEAN
    /\ Exists(weights) => output_dir

Init ==
    /\ RunsIdle /\ BoxIdle /\ LoaderIdle
    /\ active = {1}
    /\ \E a \in Args :
         /\ (~a.mvmc => a.num_scenes = 0)
         /\ args = [r \in Runs |-> a]
         /\ data_dir \in DataDirs(a, MaxScenes)
    /\ num_gpus \in 0..MaxGpus
    /\ DiskInit

InitRace ==
    /\ RunsIdle /\ BoxIdle /\ LoaderIdle
    /\ active = Runs
    /\ \E a \in Args, f \in BOOLEAN :
         /\ a.predict_illumination
         /\ a.num_scenes <= 1
         /\ (~a.mvmc => a.num_scenes = 0)
         /\ args = [r \in Runs |-> IF r = 1 THEN a ELSE [a EXCEPT !.force = f]]
         /\ data_dir \in DataDirs(a, 1)
    /\ num_gpus = 1
    /\ DiskInit

\* ----------------------------------------------------------- main(args)
envVars == <<active, args, num_gpus, data_dir>>

\* print(args); wandb.init(...); wandb.config = {...}
Start(r) ==
    /\ r \in active /\ pc[r] = "idle"
    /\ pc' = [pc EXCEPT ![r] = "check"]
    /\ overlapped' = (overlapped \/ \E q \in Runs \ {r} : InProgress(q))
    /\ UNCHANGED <<envVars, gpu_ids, gpu_id_illumination, data_list, ners, i, log,
                   weights, output_dir>>

\* os.makedirs(output_dir, exist_ok=True); the existence check and early return
CheckExisting(r) ==
    /\ pc[r] = "check"
    /\ output_dir' = TRUE
    /\ pc' = [pc EXCEPT ![r] = IF SkipRun(args[r], weights) THEN "skipped"
                                ELSE "partition"]
    /\ UNCHANGED <<envVars, gpu_ids, gpu_id_illumination, data_list, ners, i, log,
                   weights, overlapped>>

\* num_gpus = torch.cuda.device_count() and the split of the devices
Partition(r) ==
    /\ pc[r] = "partition"
    /\ LET p == PartitionDevices(num_gpus, args[r].predict_illumination)
       IN  /\ gpu_ids' = [gpu_ids EXCEPT ![r] = p.gpu_ids]
           /\ gpu_id_illumination' =
                [gpu_id_illumination EXCEPT ![r] = p.gpu_id_illumination]
    /\ pc' = [pc EXCEPT ![r] = "load"]
    /\ UNCHANGED <<envVars, data_list, ners, i, log, weights, output_dir, overlapped>>

\* what the loader chosen by args.mvmc gives; main() calls load_car_data with
\* use_optimized_cameras=True and the default reserve_first_image=True, and raises
\* ValueError itself when a directory-mode dict has no "extents"
Loaded(a, dir) ==
    IF a.mvmc
    THEN LoadCarData(dir.scenes, a.num_scenes, TRUE, TRUE)
    ELSE LET d == LoadDataFromDir(dir.mask_boxes, dir.has_metadata)
         IN  IF ~d.raised /\ ~d.data[1].has_extents
             THEN [raised |-> TRUE, data |-> <<>>]
             ELSE d

LoadData(r) ==
    /\ pc[r] = "load"
    /\ LET d == Loaded(args[r], data_dir)
       IN  /\ data_list' = [data_list EXCEPT ![r] = d.data]
           /\ pc' = [pc EXCEPT ![r] = IF d.raised THEN "failed" ELSE "construct"]
    /\ UNCHANGED <<envVars, gpu_ids, gpu_id_illumination, ners, i, log, weights,
                   output_dir, overlapped>>

\* ners = Ners(data_list, ...)
ConstructNers(r) ==
    /\ pc[r] = "construct"
    /\ \E ids \in NersSceneIdChoices(args[r], data_list[r]) :
         ners' = [ners EXCEPT ![r] = [num_scenes |-> Len(ids), scene_ids |-> ids]]
    /\ pc' = [pc EXCEPT ![r] = "viz1"]
    /\ UNCHANGED <<envVars, gpu_ids, gpu_id_illumination, data_list, i, log, weights,
                   output_dir, overlapped>>

\* one call of main() that completes: it is recorded and control moves on
Call(r, at, op, arg, next) ==
    /\ pc[r] = at
    /\ log' = [log EXCEPT ![r] = Append(@, Event(op, arg))]
    /\ pc' = [pc EXCEPT ![r] = next]
    /\ UNCHANGED <<envVars, gpu_ids, gpu_id_illumination, data_list, ners, i, weights,
                   output_dir, overlapped>>

VisualizeInitialCameras(r) ==
    Call(r, "viz1", "visualize_input_views", "_1_initial_cameras.jpg", "camera")

OptimizeCamera(r) == Call(r, "camera", "optimize_camera", "", "viz2")

VisualizeOptimizedCameras(r) ==
    Call(r, "viz2", "visualize_input_views", "_2_optimized_cameras.jpg", "shape")

OptimizeShapeNoSnapshot(r) == Call(r, "shape", "optimize_shape", "", "texture")
OptimizeShape(r) == Call(r, "shape", "optimize_shape", "", "viz3")

VisualizeOptimizedShape(r) ==
    Call(r, "viz3", "visualize_input_views", "_3_optimized_shape.jpg", "texture")

OptimizeTextureCheckpointing(r) ==
    /\ pc[r] = "texture"
    /\ log' = [log EXCEPT ![r] = @ \o <<Event("optimize_texture", ""),
                                        Event("save_parameters", "weights.pth")>>]
    /\ weights' = Append(weights, r)
    /\ pc' = [pc EXCEPT ![r] = "viz4"]
    /\ UNCHANGED <<envVars, gpu_ids, gpu_id_illumination, data_list, ners, i,
                   output_dir, overlapped>>
OptimizeTexture(r) == Call(r, "texture", "optimize_texture", "", "viz4")

VisualizeOptimizedTexture(r) ==
    Call(r, "viz4", "visualize_input_views", "_4_optimized_texture.jpg", "export")

\* the scene whose mesh the i-th iteration of the export loop names
ExportSceneIdFirst(n, k) == n.scene_ids[1]
ExportSceneId(n, k) == n.scene_ids[k + 1]

\* whether the export loop runs another iteration
ExportMore(a, n, k) == a.export_mesh /\ k < n.num_scenes

\* one iteration of the export loop: ners.save_obj(scene_id, mesh_name)
SaveObj(r) ==
    /\ pc[r] = "export"
    /\ ExportMore(args[r], ners[r], i[r])
    /\ log' = [log EXCEPT ![r] =
                 Append(@, Event("save_obj", MeshName(ExportSceneId(ners[r], i[r]))))]
    /\ i' = [i EXCEPT ![r] = @ + 1]
    /\ UNCHANGED <<envVars, pc, gpu_ids, gpu_id_illumination, data_list, ners, weights,
                   output_dir, overlapped>>

\* export not requested, or the loop is exhausted
ExportDone(r) ==
    /\ pc[r] = "export"
    /\ ~ExportMore(args[r], ners[r], i[r])
    /\ pc' = [pc EXCEPT ![r] = "save"]
    /\ UNCHANGED <<envVars, gpu_ids, gpu_id_illumination, data_list, ners, i, log,
                   weights, output_dir, overlapped>>

\* ners.save_parameters(weights_path); main() returns
SaveParameters(r) ==
    /\ pc[r] = "save"
    /\ weights' = Append(weights, r)
    /\ log' = [log EXCEPT ![r] = Append(@, Event("save_parameters", "weights.pth"))]
    /\ pc' = [pc EXCEPT ![r] = "done"]
    /\ UNCHANGED <<envVars, gpu_ids, gpu_id_illumination, data_list, ners, i,
                   output_dir, overlapped>>

\* A call made before the checkpoint write raises: the exception leaves main().
\* (How save_parameters itself may fail is Ners's business and is not modelled.)
RaisingPcs == {"check", "partition", "load", "construct", "viz1", "camera", "viz2",
               "shape", "viz3", "texture", "viz4", "export"}

Raise(r) ==
    /\ pc[r] \in RaisingPcs
    /\ pc' = [pc EXCEPT ![r] = "failed"]
    /\ UNCHANGED <<envVars, gpu_ids, gpu_id_illumination, data_list, ners, i, log,
                   weights, output_dir, overlapped>>

Next ==
    /\ UNCHANGED <<boxVars, loaderVars>>
    /\ \E r \in Runs :
         \/ Start(r)
         \/ CheckExisting(r)
         \/ Partition(r)
         \/ LoadData(r)
         \/ ConstructNers(r)
         \/ VisualizeInitialCameras(r)
         \/ OptimizeCamera(r)
         \/ VisualizeOptimizedCameras(r)
         \/ OptimizeShape(r)
         \/ VisualizeOptimizedShape(r)
         \/ OptimizeTexture(r)
         \/ VisualizeOptimizedTexture(r)
         \/ SaveObj(r)
         \/ ExportDone(r)
         \/ SaveParameters(r)
         \/ Raise(r)

Spec == Init /\ [][Next]_vars
SpecRace == InitRace /\ [][Next]_vars

\* ------------------------------------------------- the loaders on their own
\* SpecBox: the bbox a loader stores for one view, for every input box.
InitBox ==
    /\ OrchIdle /\ RunsIdle /\ LoaderIdle
    /\ box_mode \in {"directory", "multi_scene"}
    /\ box_in \in Boxes(MaxCoord)
    /\ box_out = <<>>

\* load_data_from_dir: data_dict["bbox"].append(square_bbox)
StoreDirBbox ==
    /\ box_mode = "directory" /\ box_out = <<>>
    /\ box_out' = DirSquareBbox(box_in)
    /\ UNCHANGED <<box_mode, box_in>>

\* load_car_data: data_dict["bbox"].append(square_bbox)
StoreCarBbox ==
    /\ box_mode = "multi_scene" /\ box_out = <<>>
    /\ box_out' = CarSquareBbox(box_in)
    /\ UNCHANGED <<box_mode, box_in>>

NextBox == (StoreDirBbox \/ StoreCarBbox) /\ UNCHANGED <<orchVars, loaderVars>>
SpecBox == InitBox /\ [][NextBox]_vars

\* SpecLoader: load_car_data(data_dir, num_scenes, use_optimized_cameras,
\* reserve_first_image) on scene directories with up to MaxAnn annotations.
AnnBoxes == {<<0, 0, 3, 2>>, <<2, 1, 6, 9>>}

\* A scene directory: 0..MaxAnn annotations whose boxes alternate between two
\* annotated boxes.
LoaderScenes ==
    {[id |-> 7,
      annotations |-> [k \in 1..n |-> Annotation(k - 1, IF k % 2 = 1 THEN b[1] ELSE b[2])]] :
        b \in AnnBoxes \X AnnBoxes, n \in 0..MaxAnn}

InitLoader ==
    /\ OrchIdle /\ RunsIdle /\ BoxIdle
    /\ ld_in \in [dirs : SeqsUpTo(LoaderScenes, MaxScenes), num_scenes : 0..MaxScenes,
                  use_optimized_cameras : BOOLEAN, reserve_first_image : BOOLEAN]
    /\ ld_out = [state |-> "called", data |-> <<>>]

LoaderResult ==
    LoadCarData(ld_in.dirs, ld_in.num_scenes, ld_in.use_optimized_cameras,
                ld_in.reserve_first_image)

\* return data_dicts
LoadCarDataReturn ==
    /\ ld_out.state = "called" /\ ~LoaderResult.raised
    /\ ld_out' = [state |-> "returned", data |-> LoaderResult.data]
    /\ UNCHANGED ld_in

\* IndexError from dirs[num] or ValueError from np.stack leaves load_car_data
LoadCarDataRaise ==
    /\ ld_out.state = "called" /\ LoaderResult.raised
    /\ ld_out' = [state |-> "raised", data |-> <<>>]
    /\ UNCHANGED ld_in

NextLoader == (LoadCarDataReturn \/ LoadCarDataRaise) /\ UNCHANGED <<orchVars, boxVars>>
SpecLoader == InitLoader /\ [][NextLoader]_vars

\* ------------------------------------------------------------------ claims
Ops(r) == [k \in DOMAIN log[r] |-> log[r][k].op]
IsSnapshot(e) == e.op = "visualize_input_views"
IsStage(e) == e.op \in {"optimize_camera", "optimize_shape", "optimize_texture",
                        "optimize_radiance"}
IsStageOrSnapshot(e) == IsSnapshot(e) \/ IsStage(e)
IsMesh(e) == e.op = "save_obj"
StageLog(r) == SelectSeq(log[r], IsStageOrSnapshot)
MeshLog(r) == SelectSeq(log[r], IsMesh)
Saves(r) == {k \in DOMAIN log[r] : log[r][k].op = "save_parameters"}
Before(r, k, op) == \E j \in 1..(k - 1) : log[r][j].op = op
TimesWritten(r) == Cardinality({k \in DOMAIN weights : weights[k] = r})
IsPrefix(s, t) == Len(s) <= Len(t) /\ \A k \in DOMAIN s : s[k] = t[k]
PastPartition == {"load", "construct", "viz1", "camera", "viz2", "shape", "viz3",
                  "texture", "viz4", "export", "save", "done"}

\* C1: a run started without the force flag while weights.pth exists (left by an
\* earlier invocation) never gets past the existence check: it completes no
\* snapshot, stage, mesh export or checkpoint write, and the file stays as it was.
C1_ResumeNoOp ==
    \A r \in active :
        (~args[r].force /\ Exists(weights) /\ weights[1] = 0) =>
            /\ pc[r] \in {"idle", "check", "skipped", "failed"}
            /\ log[r] = <<>>
            /\ weights = <<0>>
C1_Witness == pc[1] = "skipped" /\ ~args[1].force /\ weights = <<0>> /\ log[1] = <<>>

\* C2: with illumination requested and exactly one device, the one device is the
\* illumination device and is also in the main optimization's device list.
C2_SharedDevice ==
    \A r \in active :
        (pc[r] \in PastPartition /\ args[r].predict_illumination /\ num_gpus = 1) =>
            /\ gpu_id_illumination[r] = {0}
            /\ 0 \in Elems(gpu_ids[r])

\* C3: with N >= 2 devices and illumination requested, exactly one device is the
\* illumination device and the main optimization has exactly the other N-1; with
\* illumination not requested the main optimization has all N devices and the
\* illumination device is None.
C3_DevicePartition ==
    \A r \in active :
        pc[r] \in PastPartition =>
            /\ (args[r].predict_illumination /\ num_gpus >= 2) =>
                 /\ Cardinality(gpu_id_illumination[r]) = 1
                 /\ gpu_id_illumination[r] \subseteq 0..(num_gpus - 1)
                 /\ Len(gpu_ids[r]) = num_gpus - 1
                 /\ Elems(gpu_ids[r]) = (0..(num_gpus - 1)) \ gpu_id_illumination[r]
            /\ ~args[r].predict_illumination =>
                 /\ gpu_id_illumination[r] = {}
                 /\ Len(gpu_ids[r]) = num_gpus
                 /\ Elems(gpu_ids[r]) = 0..(num_gpus - 1)
C3_Witness ==
    /\ pc[1] = "load" /\ args[1].predict_illumination /\ num_gpus = 3
    /\ gpu_ids[1] = <<0, 1>> /\ gpu_id_illumination[1] = {2}

\* C4: the stages and snapshots a run has completed are always an initial part of
\* snapshot, optimize_camera, snapshot, optimize_shape, snapshot,
\* optimize_texture, snapshot; a skipped run completed none, a completed run all
\* seven, its four snapshots carrying four different tags.
ExpectedStageOps ==
    <<"visualize_input_views", "optimize_camera", "visualize_input_views",
      "optimize_shape", "visualize_input_views", "optimize_texture",
      "visualize_input_views">>
C4_StageOrder ==
    \A r \in active :
        LET s == StageLog(r)
            tags == {s[k].arg : k \in {j \in DOMAIN s : IsSnapshot(s[j])}}
        IN  /\ IsPrefix([k \in DOMAIN s |-> s[k].op], ExpectedStageOps)
            /\ Cardinality(tags) = Cardinality({j \in DOMAIN s : IsSnapshot(s[j])})
            /\ pc[r] = "skipped" => s = <<>>
            /\ pc[r] = "done" => Len(s) = Len(ExpectedStageOps) /\ Cardinality(tags) = 4
C4_Witness == pc[1] = "done" /\ Len(StageLog(1)) = 7

\* C5: a completed run has executed the illumination stage exactly when
\* illumination prediction was requested, after optimize_texture and before any
\* mesh export and the checkpoint write.
C5_IlluminationStage ==
    \A r \in active :
        pc[r] = "done" =>
            /\ args[r].predict_illumination <=>
                 \E k \in DOMAIN log[r] : log[r][k].op = "optimize_radiance"
            /\ \A k \in DOMAIN log[r] :
                 log[r][k].op = "optimize_radiance" =>
                    /\ Before(r, k, "optimize_texture")
                    /\ ~Before(r, k, "save_obj")
                    /\ ~Before(r, k, "save_parameters")

\* C6: a mesh is exported only when export was requested and only after
\* optimize_shape and optimize_texture have completed; once the export loop is
\* over, a run with export requested has exported one mesh per loaded scene, in
\* order, each named <scene_id>_mesh.obj.
C6_MeshExport ==
    \A r \in active :
        /\ \A k \in DOMAIN log[r] :
             IsMesh(log[r][k]) =>
                /\ args[r].export_mesh
                /\ Before(r, k, "optimize_shape")
                /\ Before(r, k, "optimize_texture")
        /\ (pc[r] \in {"save", "done"} /\ args[r].export_mesh) =>
             /\ Len(MeshLog(r)) = Len(data_list[r])
             /\ \A j \in DOMAIN MeshLog(r) :
                  /\ MeshLog(r)[j].arg = MeshName(ners[r].scene_ids[j])
                  /\ args[r].mvmc => ners[r].scene_ids[j] = data_list[r][j].id
C6_Witness ==
    /\ pc[1] = "done" /\ args[1].export_mesh
    /\ [k \in DOMAIN MeshLog(1) |-> MeshLog(1)[k].arg] = <<"7_mesh.obj", "9_mesh.obj">>

\* C7: a run writes the checkpoint at most once, as the last thing it does, after
\* optimize_camera, optimize_shape, optimize_texture and all requested mesh
\* exports; weights.pth has been written by a run exactly as often as the run
\* completed a checkpoint write, so a failed or skipped run has not written it.
C7_CheckpointFinal ==
    \A r \in active :
        /\ Cardinality(Saves(r)) <= 1
        /\ TimesWritten(r) = Cardinality(Saves(r))
        /\ pc[r] \in {"failed", "skipped"} => Saves(r) = {}
        /\ \A k \in Saves(r) :
             /\ k = Len(log[r])
             /\ pc[r] = "done"
             /\ Before(r, k, "optimize_camera")
             /\ Before(r, k, "optimize_shape")
             /\ Before(r, k, "optimize_texture")
             /\ args[r].export_mesh => Len(MeshLog(r)) = ners[r].num_scenes
C7_Witness ==
    /\ pc[1] = "done" /\ args[1].export_mesh /\ Len(MeshLog(1)) = 2
    /\ log[1][Len(log[1])].op = "save_parameters" /\ TimesWritten(1) = 1

\* C8: the bbox a loader stores is square, has the input box's center and is at
\* least as large as the input box.
C8_SquareBox ==
    box_out # <<>> =>
        LET w == box_in[3] - box_in[1]
            h == box_in[4] - box_in[2]
            W == box_out[3] - box_out[1]
            H == box_out[4] - box_out[2]
        IN  /\ W = H
            /\ box_out[1] + box_out[3] = box_in[1] + box_in[3]
            /\ box_out[2] + box_out[4] = box_in[2] + box_in[4]
            /\ W >= Max2(w, h)
            /\ H >= Max2(w, h)

\* C9: every scene load_car_data returns holds the views of annotations
\* 1..len-1 (reserve_first_image) or 0..len-1 (otherwise), in annotation order,
\* and all eight per-view fields have that many entries.
C9_ReservedFirstView ==
    ld_out.state = "returned" =>
        /\ Len(ld_out.data) = ld_in.num_scenes
        /\ \A s \in DOMAIN ld_out.data :
             LET d == ld_out.data[s]
                 anns == ld_in.dirs[s].annotations
                 skip == IF ld_in.reserve_first_image THEN 1 ELSE 0
                 n == Len(anns) - skip
             IN  /\ Len(d.images_og) = n
                 /\ \A j \in 1..n : d.images_og[j] = anns[j + skip].filename
                 /\ \A j \in 1..n : d.bbox[j] = CarSquareBbox(anns[j + skip].bbox)
                 /\ \A j \in 1..n : d.initial_poses[j][2] = anns[j + skip].filename
                 /\ Len(d.bbox) = n /\ Len(d.crop_scales) = n
                 /\ Len(d.image_centers) = n /\ Len(d.images) = n
                 /\ Len(d.initial_poses) = n /\ Len(d.masks) = n
                 /\ Len(d.masks_dt) = n
C9_Witness ==
    /\ ld_out.state = "returned" /\ ld_in.reserve_first_image
    /\ ld_in.num_scenes = 2
    /\ Len(ld_in.dirs[1].annotations) = 3 /\ ld_out.data[1].images_og = <<1, 2>>
    /\ Len(ld_in.dirs[2].annotations) = 2 /\ ld_out.data[2].images_og = <<1>>

\* C10: a run without the force flag writes weights.pth over an existing file
\* only if the two invocations overlapped; when they do overlap both can pass the
\* existence check and both write the file (C10_Witness).
C10_SingleWriterUnlessOverlap ==
    \A r \in active :
        (~args[r].force /\ TimesWritten(r) > 0 /\ ~overlapped) => weights[1] = r
C10_Witness ==
    /\ ~args[1].force /\ ~args[2].force /\ overlapped
    /\ pc[1] = "done" /\ pc[2] = "done"
    /\ weights \in {<<1, 2>>, <<2, 1>>}
    /\ Len(StageLog(1)) = 7 /\ Len(StageLog(2)) = 7

====
